---- MODULE Spec2Model ----
(***************************************************************************)
(* Model of the ALPHA chat relay (backend/src/server.js) and of the chat   *)
(* client (frontend App component).                                        *)
(*                                                                         *)
(*   - SpecRelay      : POST /api/chat, from the request body to the       *)
(*                      response, with the provider as the environment.    *)
(*   - SpecClassifier : the same handler, driven through every shape of    *)
(*                      upstream failure buildClientErrorFromOpenRouter    *)
(*                      can be handed.                                     *)
(*   - SpecExtractor  : the client rendering a stored conversation, the    *)
(*                      suggestion chips extracted from its last reply.    *)
(*   - SpecClient     : the client's handlers and the settling of its      *)
(*                      calls to the relay, in every interleaving.         *)
(*                                                                         *)
(* JavaScript values are tagged records [t |-> <typeof>, ...].  A text the *)
(* relay trims, measures or cuts is kept run-length encoded: a sequence of *)
(* runs [c |-> character, n |-> repetitions], so that a 4001-character     *)
(* message is one run and trim/slice/length are computed exactly.  A text  *)
(* the relay only passes along is kept as a plain string.                  *)
(***************************************************************************)
EXTENDS Integers, Sequences, FiniteSets, TLC

VARIABLES
    env,            \* process.env as read by the relay: key and SYSTEM_PROMPT
    pc,             \* position of the /api/chat handler
    body,           \* req.body of the request being handled
    payload,        \* the payload handed to axios.post, or Undefined
    providerCalls,  \* provider calls made for the request being handled
    caught,         \* the err the catch block received, or Undefined
    res,            \* the response sent, or Undefined
    messages,       \* client: the messages state of App
    input,          \* client: the input state (characters)
    loading,        \* client: the loading state
    error,          \* client: the error state
    abortRef,       \* client: abortRef.current, a request number or 0 for null
    requests,       \* client: the axios.post calls made, each "pending",
                    \*         "aborted" (its rejection not yet handled) or "settled"
    view            \* client: what the last render captured for the handlers

relayVars == <<env, pc, body, payload, providerCalls, caught, res>>

clientVars == <<messages, input, loading, error, abortRef, requests, view>>

vars == <<relayVars, clientVars>>

---------------------------------------------------------------------------
(* JavaScript values *)

Undefined == [t |-> "undefined"]
Null == [t |-> "null"]

Run(c, n) == [c |-> c, n |-> n]

\* a string the relay computes with (run-length encoded)
Text(runs) == [t |-> "string", s |-> runs]

\* a string the relay only passes along
Str(s) == [t |-> "string", s |-> s]

\* a finite number num/den, den > 0
Num(num, den) == [t |-> "number", k |-> "finite", num |-> num, den |-> den]

NaN == [t |-> "number", k |-> "NaN"]

Infinity == [t |-> "number", k |-> "inf", sign |-> 1]

NegInfinity == [t |-> "number", k |-> "inf", sign |-> -1]

\* a < b on JavaScript numbers other than NaN
NumLt(a, b) ==
    IF a.k = "inf" THEN a.sign = -1 /\ ~(b.k = "inf" /\ b.sign = -1)
    ELSE IF b.k = "inf" THEN b.sign = 1
    ELSE a.num * b.den < b.num * a.den

IsInteger(v) == v.t = "number" /\ v.k = "finite" /\ v.num % v.den = 0

\* JavaScript truthiness of the values the relay tests with || and !
Truthy(v) ==
    CASE v.t \in {"undefined", "null"} -> FALSE
      [] v.t = "string" -> Len(v.s) > 0
      [] v.t = "number" -> ~(v.k = "NaN" \/ (v.k = "finite" /\ v.num = 0))
      [] v.t = "boolean" -> v.b
      [] OTHER -> TRUE

---------------------------------------------------------------------------
(* String operations on run-length encoded text *)

IsWhitespace(c) == c \in {" ", "\n", "\t"}

RECURSIVE TextLen(_)
TextLen(s) == IF s = <<>> THEN 0 ELSE Head(s).n + TextLen(Tail(s))

RECURSIVE TrimStart(_)
TrimStart(s) ==
    IF s = <<>> THEN <<>>
    ELSE IF IsWhitespace(Head(s).c) THEN TrimStart(Tail(s))
    ELSE s

RECURSIVE TrimEnd(_)
TrimEnd(s) ==
    IF s = <<>> THEN <<>>
    ELSE IF IsWhitespace(s[Len(s)].c) THEN TrimEnd(SubSeq(s, 1, Len(s) - 1))
    ELSE s

\* String.prototype.trim
Trim(s) == TrimEnd(TrimStart(s))

\* String.prototype.slice(0, k): the first k characters
RECURSIVE SliceChars(_, _)
SliceChars(s, k) ==
    IF s = <<>> \/ k <= 0 THEN <<>>
    ELSE IF Head(s).n <= k
         THEN <<Head(s)>> \o SliceChars(Tail(s), k - Head(s).n)
         ELSE <<Run(Head(s).c, k)>>

\* Array.prototype.slice(-n): the last n elements
SliceLast(seq, n) ==
    IF Len(seq) <= n THEN seq ELSE SubSeq(seq, Len(seq) - n + 1, Len(seq))

\* string concatenation, keeping the encoding canonical
TextCat(a, b) ==
    IF a = <<>> THEN b
    ELSE IF b = <<>> THEN a
    ELSE IF a[Len(a)].c = Head(b).c
         THEN SubSeq(a, 1, Len(a) - 1)
              \o <<Run(Head(b).c, a[Len(a)].n + Head(b).n)>> \o Tail(b)
         ELSE a \o b

\* a text given character by character
RECURSIVE Chars(_)
Chars(cs) == IF cs = <<>> THEN <<>> ELSE TextCat(<<Run(Head(cs), 1)>>, Chars(Tail(cs)))

DigitChars == <<"0", "1", "2", "3", "4", "5", "6", "7", "8", "9">>

RECURSIVE DecimalDigits(_)
DecimalDigits(n) ==
    IF n < 10 THEN <<Run(DigitChars[n + 1], 1)>>
    ELSE TextCat(DecimalDigits(n \div 10), <<Run(DigitChars[(n % 10) + 1], 1)>>)

\* typeof v
TypeOf(v) == IF v.t \in {"null", "array"} THEN "object" ELSE v.t

\* v.f, Undefined when v has no property f
Get(v, f) == IF f \in DOMAIN v THEN v[f] ELSE Undefined

\* whether String(v) throws: an object whose toString and valueOf are not
\* callable cannot be converted to a primitive
StringThrows(v) == v.t = "object" /\ "unconvertible" \in DOMAIN v

\* String(v) for the values a JSON body can hold (numbers: the naturals;
\* arrays: of at most one element)
RECURSIVE String(_)
String(v) ==
    CASE v.t = "string" -> v.s
      [] v.t = "boolean" -> IF v.b THEN Chars(<<"t", "r", "u", "e">>)
                                   ELSE Chars(<<"f", "a", "l", "s", "e">>)
      [] v.t = "number" -> DecimalDigits(v.num \div v.den)
      [] v.t = "array" -> IF v.items = <<>> THEN <<>> ELSE String(v.items[1])
      [] OTHER -> Chars(<<"[", "o", "b", "j", "e", "c", "t", " ",
                          "O", "b", "j", "e", "c", "t", "]">>)

---------------------------------------------------------------------------
(* sanitizeMessages *)

MAX_MESSAGES == 50

MAX_CHARS == 4000

allowedRoles == {"user", "assistant", "system"}

trimmedNoSlice(rawMessages) == rawMessages.items

\* const trimmed = rawMessages.slice(-MAX_MESSAGES)
trimmed(rawMessages) == SliceLast(rawMessages.items, MAX_MESSAGES)

\* const role = allowedRoles.has(m.role) ? m.role : 'user'
roleOf(m) ==
    IF Get(m, "role").t = "string" /\ Get(m, "role").s \in allowedRoles
    THEN Get(m, "role")
    ELSE Str("user")

\* const limited = normalized.length > MAX_CHARS ? normalized.slice(0, MAX_CHARS) : normalized
limited(normalized) ==
    IF TextLen(normalized) > MAX_CHARS
    THEN SliceChars(normalized, MAX_CHARS)
    ELSE normalized

PushesTruthyContent(m) ==
    /\ Truthy(m)
    /\ TypeOf(m) = "object"
    /\ LET content == Get(m, "content")
       IN  /\ Truthy(content)
           /\ ~StringThrows(content)
           /\ Trim(String(content)) # <<>>

\* whether the loop body reaches safe.push for entry m
Pushes(m) ==
    /\ Truthy(m)
    /\ TypeOf(m) = "object"
    /\ LET content == Get(m, "content")
       IN  /\ content.t \notin {"undefined", "null"}
           /\ ~StringThrows(content)
           /\ Trim(String(content)) # <<>>

\* the turn safe.push appends for entry m
Pushed(m) ==
    [role |-> roleOf(m), content |-> Text(limited(Trim(String(Get(m, "content")))))]

\* for (const m of trimmed) { ... }
RECURSIVE sanitizeLoop(_, _)
sanitizeLoop(rest, safe) ==
    IF rest = <<>> THEN safe
    ELSE IF Pushes(Head(rest))
         THEN sanitizeLoop(Tail(rest), Append(safe, Pushed(Head(rest))))
         ELSE sanitizeLoop(Tail(rest), safe)

sanitizeMessages(rawMessages) ==
    IF rawMessages.t # "array" THEN <<>>
    ELSE sanitizeLoop(trimmed(rawMessages), <<>>)

---------------------------------------------------------------------------
(* clampNumber *)

clampNumber(value, min, max) ==
    IF value.t # "number" \/ value.k = "NaN" THEN Undefined
    ELSE IF NumLt(value, min) THEN min
    ELSE IF NumLt(max, value) THEN max
    ELSE value

---------------------------------------------------------------------------
(* buildClientErrorFromOpenRouter *)

NumEq(a, b) == ~NumLt(a, b) /\ ~NumLt(b, a)

\* a || b
Or(a, b) == IF Truthy(a) THEN a ELSE b

\* const status = err?.response?.status
statusOf(err) == Get(Get(err, "response"), "status")

\* const rawMessage = err?.response?.data?.error || err?.message || 'Unknown error'
rawMessageOf(err) ==
    Or(Or(Get(Get(Get(err, "response"), "data"), "error"), Get(err, "message")),
       Str("Unknown error"))

ClientError(statusCode, message) == [statusCode |-> statusCode, message |-> message]

MsgTimeout == Str("The AI took too long to respond. Please try again.")

MsgUnreachable == Str("Unable to reach the AI service. Please try again in a moment.")

MsgUnauthorized == Str("The AI backend is not authorized. Please contact the administrator.")

MsgRateLimited ==
    Str("The AI is receiving too many requests. Please slow down and try again shortly.")

MsgProviderIssue == Str("The AI provider is having an issue. Please try again later.")

MsgRequestFailed == Str("Request failed")

buildClientErrorLeaky(err) ==
    LET status == statusOf(err)
        rawMessage == rawMessageOf(err)
    IN  IF ~Truthy(status)
        THEN IF Get(err, "code") = Str("ECONNABORTED")
             THEN ClientError(Num(504, 1), MsgTimeout)
             ELSE ClientError(Num(502, 1), MsgUnreachable)
        ELSE IF NumEq(status, Num(401, 1)) \/ NumEq(status, Num(403, 1))
        THEN ClientError(Num(500, 1), MsgUnauthorized)
        ELSE IF NumEq(status, Num(429, 1))
        THEN ClientError(Num(429, 1), MsgRateLimited)
        ELSE ClientError(IF ~NumLt(status, Num(500, 1)) THEN Num(502, 1) ELSE status,
                         IF rawMessage.t = "string" THEN rawMessage ELSE MsgRequestFailed)

buildClientErrorAbove500(err) ==
    LET status == statusOf(err)
        rawMessage == rawMessageOf(err)
    IN  IF ~Truthy(status)
        THEN IF Get(err, "code") = Str("ECONNABORTED")
             THEN ClientError(Num(504, 1), MsgTimeout)
             ELSE ClientError(Num(502, 1), MsgUnreachable)
        ELSE IF NumEq(status, Num(401, 1)) \/ NumEq(status, Num(403, 1))
        THEN ClientError(Num(500, 1), MsgUnauthorized)
        ELSE IF NumEq(status, Num(429, 1))
        THEN ClientError(Num(429, 1), MsgRateLimited)
        ELSE IF NumLt(Num(500, 1), status)
        THEN ClientError(Num(502, 1), MsgProviderIssue)
        ELSE ClientError(status,
                         IF rawMessage.t = "string" THEN rawMessage ELSE MsgRequestFailed)

buildClientErrorFromOpenRouter(err) ==
    LET status == statusOf(err)
        rawMessage == rawMessageOf(err)
    IN  IF ~Truthy(status)
        THEN IF Get(err, "code") = Str("ECONNABORTED")
             THEN ClientError(Num(504, 1), MsgTimeout)
             ELSE ClientError(Num(502, 1), MsgUnreachable)
        ELSE IF NumEq(status, Num(401, 1)) \/ NumEq(status, Num(403, 1))
        THEN ClientError(Num(500, 1), MsgUnauthorized)
        ELSE IF NumEq(status, Num(429, 1))
        THEN ClientError(Num(429, 1), MsgRateLimited)
        ELSE IF ~NumLt(status, Num(500, 1))
        THEN ClientError(Num(502, 1), MsgProviderIssue)
        ELSE ClientError(status,
                         IF rawMessage.t = "string" THEN rawMessage ELSE MsgRequestFailed)

---------------------------------------------------------------------------
(* app.post('/api/chat') *)

MsgNotConfigured == Str("Server not configured: missing OPENROUTER_API_KEY")

MsgInvalidRequest ==
    Str("Invalid request: at least one non-empty user message is required")

\* 'openai/gpt-4o-mini'
DefaultModel ==
    Text(Chars(<<"o", "p", "e", "n", "a", "i", "/", "g", "p", "t", "-",
                 "4", "o", "-", "m", "i", "n", "i">>))

\* length of the built-in base system prompt; its wording plays no part in
\* what the relay computes, so it is kept as a run of that length
BasePromptLen == 130

\* length of suggestionInstructions, kept the same way
InstructionsLen == 422

\* const { messages: rawMessages, model, ... } = req.body || {}
bodyOrEmpty(b) == IF Truthy(b) THEN b ELSE [t |-> "object"]

\* typeof model === 'string' && model.trim() ? model.trim() : 'openai/gpt-4o-mini'
selectedModel(model) ==
    IF model.t = "string" /\ Trim(model.s) # <<>> THEN Text(Trim(model.s))
    ELSE DefaultModel

\* safeMessages.some(m => m?.role === 'system')
hasSystem(safeMessages) ==
    \E i \in 1..Len(safeMessages) : safeMessages[i].role = Str("system")

\* process.env.SYSTEM_PROMPT || '<built-in base prompt>'
baseSystemPrompt(e) ==
    IF Truthy(e.SYSTEM_PROMPT) THEN e.SYSTEM_PROMPT.s ELSE <<Run("B", BasePromptLen)>>

\* `${baseSystemPrompt}\n\n${suggestionInstructions}`
defaultSystemPrompt(e) ==
    Text(TextCat(TextCat(baseSystemPrompt(e), <<Run("\n", 2)>>),
                 <<Run("I", InstructionsLen)>>))

finalMessagesAlwaysInject(safeMessages, e) ==
    <<[role |-> Str("system"), content |-> defaultSystemPrompt(e)]>> \o safeMessages

\* hasSystem ? safeMessages : [{ role: 'system', content: defaultSystemPrompt }, ...safeMessages]
finalMessages(safeMessages, e) ==
    IF hasSystem(safeMessages) THEN safeMessages
    ELSE <<[role |-> Str("system"), content |-> defaultSystemPrompt(e)]>> \o safeMessages

\* the payload of lines 195-205
Payload(b, e) ==
    [model |-> selectedModel(Get(b, "model")),
     messages |-> finalMessages(sanitizeMessages(Get(b, "messages")), e),
     temperature |-> clampNumber(Get(b, "temperature"), Num(0, 1), Num(1, 1)),
     top_p |-> clampNumber(Get(b, "top_p"), Num(0, 1), Num(1, 1)),
     max_tokens |-> clampNumber(Get(b, "max_tokens"), Num(1, 1), Num(4096, 1))]

\* res.status(statusCode).json({ error: message })
ErrorResponse(statusCode, message) ==
    [status |-> statusCode, body |-> [error |-> message]]

\* a ?? b
Nullish(a, b) == IF a.t \in {"undefined", "null"} THEN b ELSE a

\* data?.choices?.[0]?.message
firstChoiceMessage(data) ==
    LET choices == Get(data, "choices")
    IN  IF choices.t = "array" /\ choices.items # <<>>
        THEN Get(choices.items[1], "message")
        ELSE Undefined

\* res.json({ content, role, raw: { id, model, usage } }), line 218
SuccessResponse(data) ==
    [status |-> Num(200, 1),
     body |-> [content |-> Nullish(Get(firstChoiceMessage(data), "content"), Str("")),
               role |-> Nullish(Get(firstChoiceMessage(data), "role"), Str("assistant")),
               raw |-> [id |-> Get(data, "id"), model |-> Get(data, "model"),
                        usage |-> Get(data, "usage")]]]

\* The handler from its entry to the await of axios.post (lines 165-211): the
\* credential guard, sanitization, the validation guard, composition, and the
\* one provider call.
ChatReceive(b) ==
    /\ pc = "idle"
    /\ body' = b
    /\ IF ~Truthy(env.OPENROUTER_API_KEY)
       THEN /\ res' = ErrorResponse(Num(500, 1), MsgNotConfigured)
            /\ payload' = Undefined
            /\ providerCalls' = 0
            /\ pc' = "done"
       ELSE IF Len(sanitizeMessages(Get(bodyOrEmpty(b), "messages"))) = 0
       THEN /\ res' = ErrorResponse(Num(400, 1), MsgInvalidRequest)
            /\ payload' = Undefined
            /\ providerCalls' = 0
            /\ pc' = "done"
       ELSE /\ payload' = Payload(bodyOrEmpty(b), env)
            /\ providerCalls' = 1
            /\ res' = Undefined
            /\ pc' = "awaiting"
    /\ caught' = Undefined
    /\ UNCHANGED <<env, clientVars>>

\* axios.post resolves: lines 213-218
ProviderSucceeds(data) ==
    /\ pc = "awaiting"
    /\ res' = SuccessResponse(data)
    /\ pc' = "done"
    /\ UNCHANGED <<env, body, payload, providerCalls, caught, clientVars>>

ProviderFailsAndRetries(err) ==
    /\ pc = "awaiting"
    /\ IF providerCalls < 2
       THEN /\ providerCalls' = providerCalls + 1
            /\ UNCHANGED <<pc, res, caught>>
       ELSE /\ res' = ErrorResponse(buildClientErrorFromOpenRouter(err).statusCode,
                                    buildClientErrorFromOpenRouter(err).message)
            /\ caught' = err
            /\ pc' = "done"
            /\ UNCHANGED providerCalls
    /\ UNCHANGED <<env, body, payload, clientVars>>

\* axios.post rejects with err: the catch block, lines 219-229
ProviderFails(err) ==
    /\ pc = "awaiting"
    /\ res' = ErrorResponse(buildClientErrorFromOpenRouter(err).statusCode,
                            buildClientErrorFromOpenRouter(err).message)
    /\ caught' = err
    /\ pc' = "done"
    /\ UNCHANGED <<env, body, payload, providerCalls, clientVars>>

\* the handler has returned; the relay waits for the next request
ChatReturn ==
    /\ pc = "done"
    /\ pc' = "idle"
    /\ body' = Undefined
    /\ payload' = Undefined
    /\ providerCalls' = 0
    /\ caught' = Undefined
    /\ res' = Undefined
    /\ UNCHANGED <<env, clientVars>>

---------------------------------------------------------------------------
(* extractFollowUpSuggestions (client).  The texts it reads are sequences of
   characters, since it looks at them character by character. *)

\* a string given as its characters
CharString(cs) == [t |-> "string", s |-> cs]

LineTerminator == "\n"

IsSpaceChar(c) == c \in {" ", "\t", "\r", "\n"}

\* content.split('\n')
RECURSIVE SplitFrom(_, _, _)
SplitFrom(cs, i, line) ==
    IF i > Len(cs) THEN <<line>>
    ELSE IF cs[i] = LineTerminator THEN <<line>> \o SplitFrom(cs, i + 1, <<>>)
    ELSE SplitFrom(cs, i + 1, Append(line, cs[i]))

SplitLines(cs) == SplitFrom(cs, 1, <<>>)

RECURSIVE TrimCharsStart(_)
TrimCharsStart(cs) ==
    IF cs = <<>> THEN <<>>
    ELSE IF IsSpaceChar(Head(cs)) THEN TrimCharsStart(Tail(cs))
    ELSE cs

RECURSIVE TrimCharsEnd(_)
TrimCharsEnd(cs) ==
    IF cs = <<>> THEN <<>>
    ELSE IF IsSpaceChar(cs[Len(cs)]) THEN TrimCharsEnd(SubSeq(cs, 1, Len(cs) - 1))
    ELSE cs

\* String.prototype.trim on characters
TrimChars(cs) == TrimCharsEnd(TrimCharsStart(cs))

UpperCase == <<"A", "B", "C", "D", "E", "F", "G", "H", "I", "J", "K", "L", "M", "N", "O", "P", "Q", "R", "S", "T", "U", "V", "W", "X", "Y", "Z">>

LowerCase == <<"a", "b", "c", "d", "e", "f", "g", "h", "i", "j", "k", "l", "m", "n", "o", "p", "q", "r", "s", "t", "u", "v", "w", "x", "y", "z">>

\* the lower-case letter of each upper-case letter
LowerOf ==
    [c \in {UpperCase[k] : k \in 1..Len(UpperCase)} |->
        LowerCase[CHOOSE k \in 1..Len(UpperCase) : UpperCase[k] = c]]

\* String.prototype.toLowerCase
ToLowerCase(cs) ==
    [i \in 1..Len(cs) |-> IF cs[i] \in DOMAIN LowerOf THEN LowerOf[cs[i]] ELSE cs[i]]

\* String.prototype.startsWith
StartsWith(cs, prefix) ==
    Len(cs) >= Len(prefix) /\ SubSeq(cs, 1, Len(prefix)) = prefix

\* 'follow-up suggestions'
HeaderPlain == <<"f", "o", "l", "l", "o", "w", "-", "u", "p", " ", "s", "u", "g", "g", "e", "s", "t", "i", "o", "n", "s">>

\* 'follow-up suggestions:'
HeaderColon == Append(HeaderPlain, ":")

\* '### follow-up suggestions'
HeaderMarkdown == <<"#", "#", "#", " ">> \o HeaderPlain

\* the findIndex predicate, lines 36-39
isHeaderLine(line) ==
    LET t == ToLowerCase(TrimChars(line))
    IN  t = HeaderColon \/ t = HeaderPlain \/ StartsWith(t, HeaderMarkdown)

\* lines.findIndex(...): the first matching index, 0 when there is none (the
\* code's -1, with lines counted from 1)
startIndexOf(lines) ==
    IF \E i \in 1..Len(lines) : isHeaderLine(lines[i])
    THEN CHOOSE i \in 1..Len(lines) :
            isHeaderLine(lines[i]) /\ \A j \in 1..(i - 1) : ~isHeaderLine(lines[j])
    ELSE 0

IsDigit(c) == c \in {"0", "1", "2", "3", "4", "5", "6", "7", "8", "9"}

\* `.` of a regular expression: any character but a line terminator
IsDot(c) == c \notin {"\n", "\r"}

\* the number of characters of cs from position i on that satisfy the test
RECURSIVE RunOfSpaces(_, _)
RunOfSpaces(cs, i) ==
    IF i <= Len(cs) /\ IsSpaceChar(cs[i]) THEN 1 + RunOfSpaces(cs, i + 1) ELSE 0

RECURSIVE RunOfDigits(_, _)
RunOfDigits(cs, i) ==
    IF i <= Len(cs) /\ IsDigit(cs[i]) THEN 1 + RunOfDigits(cs, i + 1) ELSE 0

NoMatch == [t |-> "null"]

\* \s+(.*)$ from position i of a trimmed line: the capture of (.*).  A
\* trimmed line does not end in whitespace, so the greedy \s+ takes the whole
\* run of whitespace and (.*) the rest.
RestAfterSpaces(line, i) ==
    LET n == RunOfSpaces(line, i)
        rest == SubSeq(line, i + n, Len(line))
    IN  IF n >= 1 /\ \A k \in 1..Len(rest) : IsDot(rest[k])
        THEN CharString(rest)
        ELSE NoMatch

\* line.match(/^[-*]\s+(.*)$/), as its capture or NoMatch
bulletMatch(line) ==
    IF Len(line) >= 1 /\ line[1] \in {"-", "*"} THEN RestAfterSpaces(line, 2)
    ELSE NoMatch

\* line.match(/^\d+\.\s+(.*)$/), as its capture or NoMatch
numberedMatch(line) ==
    LET d == RunOfDigits(line, 1)
    IN  IF d >= 1 /\ Len(line) >= d + 1 /\ line[d + 1] = "."
        THEN RestAfterSpaces(line, d + 2)
        ELSE NoMatch

\* (bulletMatch && bulletMatch[1]) || (numberedMatch && numberedMatch[1]) || null
textOf(line) ==
    LET bullet == bulletMatch(line)
        numbered == numberedMatch(line)
    IN  IF Truthy(bullet) THEN bullet
        ELSE IF Truthy(numbered) THEN numbered
        ELSE NoMatch

\* a '#' line that is not the suggestions heading, line 48
isOtherHeading(line) ==
    StartsWith(line, <<"#">>) /\ ~StartsWith(ToLowerCase(line), HeaderMarkdown)

MAX_SUGGESTIONS == 5

limitReachedLate(suggestions) == Len(suggestions) > MAX_SUGGESTIONS

\* suggestions.length >= 5
limitReached(suggestions) == Len(suggestions) >= MAX_SUGGESTIONS

firstScannedFromTop(startIndex) == 1

\* let i = startIndex + 1
firstScanned(startIndex) == startIndex + 1

RECURSIVE scanPastText(_, _, _)
scanPastText(lines, i, suggestions) ==
    IF i > Len(lines) THEN suggestions
    ELSE LET line == TrimChars(lines[i])
             text == textOf(line)
             pushed == Append(suggestions, TrimChars(text.s))
         IN  IF line = <<>> THEN scanPastText(lines, i + 1, suggestions)
             ELSE IF isOtherHeading(line)
             THEN IF Len(suggestions) > 0 THEN suggestions
                  ELSE scanPastText(lines, i + 1, suggestions)
             ELSE IF Truthy(text)
             THEN IF limitReached(pushed) THEN pushed
                  ELSE scanPastText(lines, i + 1, pushed)
             ELSE scanPastText(lines, i + 1, suggestions)

\* the for loop of lines 43-64, from line i on
RECURSIVE scan(_, _, _)
scan(lines, i, suggestions) ==
    IF i > Len(lines) THEN suggestions
    ELSE LET line == TrimChars(lines[i])
             text == textOf(line)
             pushed == Append(suggestions, TrimChars(text.s))
         IN  IF line = <<>> THEN scan(lines, i + 1, suggestions)
             ELSE IF isOtherHeading(line)
             THEN IF Len(suggestions) > 0 THEN suggestions
                  ELSE scan(lines, i + 1, suggestions)
             ELSE IF Truthy(text)
             THEN IF limitReached(pushed) THEN pushed
                  ELSE scan(lines, i + 1, pushed)
             ELSE IF Len(suggestions) > 0 THEN suggestions
             ELSE scan(lines, i + 1, suggestions)

extractFollowUpSuggestions(content) ==
    IF ~Truthy(content) \/ content.t # "string" THEN <<>>
    ELSE LET lines == SplitLines(content.s)
             startIndex == startIndexOf(lines)
         IN  IF startIndex = 0 THEN <<>>
             ELSE scan(lines, firstScanned(startIndex), <<>>)

---------------------------------------------------------------------------
(* App (client).  A handler runs with what the render it belongs to captured
   (view); state updates land in the state and reach the handlers at the next
   render.  When React renders between two events is left open: any handler
   of the last render may run before the next one. *)

\* the last assistant message with text content, lines 134-139
lastAssistantMessage(msgs) ==
    IF \E i \in 1..Len(msgs) : msgs[i].role = "assistant" /\ msgs[i].content.t = "string"
    THEN msgs[CHOOSE i \in 1..Len(msgs) :
                /\ msgs[i].role = "assistant" /\ msgs[i].content.t = "string"
                /\ \A j \in (i + 1)..Len(msgs) :
                      ~(msgs[j].role = "assistant" /\ msgs[j].content.t = "string")]
    ELSE Null

\* useMemo(... extractFollowUpSuggestions(lastAssistantMessage.content) ...)
followUpSuggestions(msgs) ==
    LET last == lastAssistantMessage(msgs)
    IN  IF last # Null THEN extractFollowUpSuggestions(last.content) ELSE <<>>

\* input.trim().length > 0 && !loading, of the render the handler belongs to
canSend(v) == Len(TrimChars(v.input)) > 0 /\ ~v.loading

NotRendered == [rendered |-> FALSE]

\* a render: the handlers now see the current state
Render ==
    /\ view' = [rendered |-> TRUE, messages |-> messages, input |-> input,
                loading |-> loading,
                followUpSuggestions |-> followUpSuggestions(messages)]
    /\ view' # view
    /\ UNCHANGED <<relayVars, messages, input, loading, error, abortRef, requests>>

abortNothing(reqs, ref) == reqs

\* abortRef.current?.abort(): a pending call is cancelled, anything else is
\* left as it is
abortCurrent(reqs, ref) ==
    IF ref # 0 /\ reqs[ref] = "pending" THEN [reqs EXCEPT ![ref] = "aborted"] ELSE reqs

\* requests a client session makes
MaxRequests == 3

\* onChange of the textarea
TypeInput(text) ==
    /\ view.rendered
    /\ input' = text
    /\ input' # input
    /\ UNCHANGED <<relayVars, messages, loading, error, abortRef, requests, view>>

\* sendMessage up to the await, lines 146-163
SendMessage ==
    /\ view.rendered
    /\ canSend(view)
    /\ Len(requests) < MaxRequests
    /\ error' = ""
    /\ messages' = Append(messages, [role |-> "user",
                                     content |-> CharString(TrimChars(view.input))])
    /\ input' = <<>>
    /\ loading' = TRUE
    /\ requests' = Append(abortCurrent(requests, abortRef), "pending")
    /\ abortRef' = Len(requests) + 1
    /\ UNCHANGED <<relayVars, view>>

\* 'No response'
NoResponse == CharString(<<"N", "o", " ", "r", "e", "s", "p", "o", "n", "s", "e">>)

\* the call resolves with res.data.content = content: lines 164-165 and the
\* finally
ResponseArrives(r, content) ==
    /\ requests[r] = "pending"
    /\ requests' = [requests EXCEPT ![r] = "settled"]
    /\ messages' = Append(messages, [role |-> "assistant",
                                     content |-> Or(content, NoResponse)])
    /\ loading' = FALSE
    /\ UNCHANGED <<relayVars, input, error, abortRef, view>>

\* the call rejects with a failure that is not a cancellation: lines 169-171
\* and the finally
RequestFails(r, msg) ==
    /\ requests[r] = "pending"
    /\ requests' = [requests EXCEPT ![r] = "settled"]
    /\ error' = msg
    /\ loading' = FALSE
    /\ UNCHANGED <<relayVars, messages, input, abortRef, view>>

\* the rejection of a cancelled call is handled: line 168 and the finally
CancellationHandled(r) ==
    /\ requests[r] = "aborted"
    /\ requests' = [requests EXCEPT ![r] = "settled"]
    /\ error' = "Request cancelled"
    /\ loading' = FALSE
    /\ UNCHANGED <<relayVars, messages, input, abortRef, view>>

\* stopRequest, lines 215-217; the Stop button is rendered while loading
StopRequest ==
    /\ view.rendered
    /\ view.loading
    /\ requests' = abortCurrent(requests, abortRef)
    /\ requests' # requests
    /\ UNCHANGED <<relayVars, messages, input, loading, error, abortRef, view>>

\* handleSuggestionClick, lines 178-185; a chip is rendered for each
\* suggestion below the Regenerate button, lines 279-296
HandleSuggestionClick(k) ==
    /\ view.rendered
    /\ ~view.loading
    /\ Len(view.messages) > 0
    /\ view.messages[Len(view.messages)].role = "assistant"
    /\ k \in 1..Len(view.followUpSuggestions)
    /\ Truthy(CharString(view.followUpSuggestions[k]))
    /\ input' = view.followUpSuggestions[k]
    /\ error' = ""
    /\ <<input', error'>> # <<input, error>>
    /\ UNCHANGED <<relayVars, messages, loading, abortRef, requests, view>>

\* clearHistory, lines 204-207; its button is always rendered
ClearHistory ==
    /\ view.rendered
    /\ messages' = <<>>
    /\ error' = ""
    /\ <<messages', error'>> # <<messages, error>>
    /\ UNCHANGED <<relayVars, input, loading, abortRef, requests, view>>

\* [...messages].map(m => m.role).lastIndexOf('user'), 0 when there is none
lastUserIndex(msgs) ==
    IF \E i \in 1..Len(msgs) : msgs[i].role = "user"
    THEN CHOOSE i \in 1..Len(msgs) :
            msgs[i].role = "user" /\ \A j \in (i + 1)..Len(msgs) : msgs[j].role # "user"
    ELSE 0

\* the Regenerate button is rendered, line 279
canRegenerate(v) ==
    /\ ~v.loading
    /\ Len(v.messages) > 0
    /\ v.messages[Len(v.messages)].role = "assistant"

\* regenerateLast, lines 187-195
RegenerateLast ==
    /\ view.rendered
    /\ canRegenerate(view)
    /\ lastUserIndex(view.messages) # 0
    /\ messages' = SubSeq(view.messages, 1, lastUserIndex(view.messages) - 1)
    /\ input' = view.messages[lastUserIndex(view.messages)].content.s
    /\ UNCHANGED <<relayVars, loading, error, abortRef, requests, view>>

\* newChat, lines 209-213; the New chat button is rendered while not loading
NewChat ==
    /\ view.rendered
    /\ ~view.loading
    /\ messages' = <<>>
    /\ input' = <<>>
    /\ error' = ""
    /\ <<messages', input', error'>> # <<messages, input, error>>
    /\ UNCHANGED <<relayVars, loading, abortRef, requests, view>>

---------------------------------------------------------------------------
(* The requests, environments and provider outcomes the relay is driven with *)

\* entries placed before and after the padding of a long message list
MaxExtra == 2

Msg(role, content) == [t |-> "object", role |-> Str(role), content |-> content]

LongText == Text(<<Run(" ", 2), Run("a", MAX_CHARS), Run("b", 1)>>)

EntryPool ==
    { Null,
      Msg("assistant", Text(<<Run(" ", 2), Run("o", 1), Run("k", 1), Run("\n", 1)>>)),
      Msg("system", Text(Chars(<<"s", "y", "s">>))),
      Msg("system", Text(<<Run(" ", 1)>>)),
      Msg("tool", Text(Chars(<<"x">>))),
      Msg("user", Null),
      [t |-> "object", content |-> LongText],
      Msg("user", Num(0, 1)),
      Msg("user", [t |-> "object", unconvertible |-> TRUE]) }

SeqsUpTo(S, n) == UNION { [1..k -> S] : k \in 0..n }

Filler == Msg("user", Text(Chars(<<"q">>)))

Padding(k) == [i \in 1..k |-> Filler]

PadCounts == {MAX_MESSAGES - 1, MAX_MESSAGES}

\* short lists, and lists around MAX_MESSAGES entries long with arbitrary
\* entries at the old end (the first j of x) and at the recent end (the rest)
MessageLists ==
    SeqsUpTo(EntryPool, MaxExtra)
    \cup { SubSeq(xj[1], 1, xj[2]) \o Padding(k) \o SubSeq(xj[1], xj[2] + 1, Len(xj[1])) :
             k \in PadCounts,
             xj \in { yi \in SeqsUpTo(EntryPool, MaxExtra) \X (0..MaxExtra) :
                        yi[2] <= Len(yi[1]) } }

Array(items) == [t |-> "array", items |-> items]

Body(rawMessages, model, temperature, top_p, max_tokens) ==
    [t |-> "object", messages |-> rawMessages, model |-> model,
     temperature |-> temperature, top_p |-> top_p, max_tokens |-> max_tokens]

FractionValues ==
    { Undefined, Str("0.5"), NaN, Num(-1, 1), Num(1, 2), Num(3, 1), Infinity }

MaxTokensValues ==
    { Undefined, Null, NaN, NegInfinity, Num(0, 1), Num(5, 2), Num(100, 1), Num(5000, 1) }

ModelValues ==
    { Undefined, Num(5, 1), Text(<<>>), Text(<<Run(" ", 3)>>),
      Text(<<Run(" ", 1), Run("m", 1), Run(" ", 1)>>) }

OneTurn == Array(<<Msg("user", Text(Chars(<<"h", "i">>)))>>)

NoTurn == Array(<<Msg("user", Text(<<Run(" ", 3)>>))>>)

RequestBodies ==
    { Body(Array(l), Undefined, Undefined, Undefined, Undefined) :
        l \in MessageLists }
    \cup { Body(m, Undefined, t, p, k) :
             m \in {OneTurn, NoTurn}, t \in FractionValues, p \in FractionValues,
             k \in MaxTokensValues }
    \cup { Body(m, v, Undefined, Undefined, Undefined) :
             m \in {OneTurn, NoTurn}, v \in ModelValues }
    \cup { Body(m, Undefined, Undefined, Undefined, Undefined) :
             m \in { Undefined, Str("hi"), [t |-> "object"], Array(<<Num(7, 1)>>),
                     Array(<<Str("hi"), Msg("user", Text(Chars(<<"h", "i">>)))>>),
                     Array(<<Msg("user", [t |-> "object"]), Msg("user", Array(<<>>)),
                             Msg("user", [t |-> "boolean", b |-> FALSE])>>) } }
    \cup { Undefined }

Environments ==
    { [OPENROUTER_API_KEY |-> Str("sk-or-key"), SYSTEM_PROMPT |-> Undefined],
      [OPENROUTER_API_KEY |-> Str("sk-or-key"),
       SYSTEM_PROMPT |-> Text(<<Run("p", MAX_CHARS)>>)],
      [OPENROUTER_API_KEY |-> Undefined, SYSTEM_PROMPT |-> Undefined] }

Completions ==
    { Undefined,
      [t |-> "object", id |-> Str("gen-1"),
       choices |-> Array(<<[t |-> "object",
                            message |-> [t |-> "object", role |-> Str("assistant"),
                                         content |-> Str("Hello")]]>>)] }

AxiosError(response, message, code) ==
    [t |-> "object", response |-> response, message |-> message, code |-> code]

Response(status, data) == [t |-> "object", status |-> Num(status, 1), data |-> data]

\* upstream statuses axios rejects with (validateStatus: outside 2xx)
Statuses == {304, 400, 401, 403, 404, 429, 499, 500, 503}

ErrorData ==
    { Undefined,
      [t |-> "object"],
      [t |-> "object", error |-> Str("")],
      [t |-> "object", error |-> Str("Provider quota exceeded")],
      [t |-> "object", error |-> [t |-> "object", code |-> Num(400, 1),
                                  message |-> Str("Bad input")]] }

ErrorCodes == { Undefined, Str("ECONNABORTED"), Str("ERR_BAD_RESPONSE") }

ErrorMessages == { Undefined, Str("Request failed with status code") }

Failures ==
    { AxiosError(r, m, c) :
        r \in {Undefined} \cup { Response(s, d) : s \in Statuses, d \in ErrorData },
        m \in ErrorMessages, c \in ErrorCodes }

\* the outcomes the relay is driven with where the requests are what varies
CompletionSample == CHOOSE d \in Completions : d # Undefined

FailureSample ==
    AxiosError(Undefined, Str("timeout of 60000ms exceeded"), Str("ECONNABORTED"))

---------------------------------------------------------------------------
(* Specifications *)

\* the client before it is mounted
ClientIdle ==
    /\ messages = <<>>
    /\ input = <<>>
    /\ loading = FALSE
    /\ error = ""
    /\ abortRef = 0
    /\ requests = <<>>
    /\ view = NotRendered

\* the relay with no request at hand
RelayIdle ==
    /\ env = CHOOSE e \in Environments : Truthy(e.OPENROUTER_API_KEY) /\ ~Truthy(e.SYSTEM_PROMPT)
    /\ pc = "idle"
    /\ body = Undefined
    /\ payload = Undefined
    /\ providerCalls = 0
    /\ caught = Undefined
    /\ res = Undefined

InitRelay ==
    /\ env \in Environments
    /\ pc = "idle"
    /\ body = Undefined
    /\ payload = Undefined
    /\ providerCalls = 0
    /\ caught = Undefined
    /\ res = Undefined
    /\ ClientIdle

NextRelay ==
    \/ \E b \in RequestBodies : ChatReceive(b)
    \/ ProviderSucceeds(CompletionSample)
    \/ ProviderFails(FailureSample)
    \/ ChatReturn

SpecRelay == InitRelay /\ [][NextRelay]_vars

NextClassifier ==
    \/ \E b \in { Body(m, Undefined, Undefined, Undefined, Undefined) :
                    m \in {OneTurn, NoTurn} } : ChatReceive(b)
    \/ \E d \in Completions : ProviderSucceeds(d)
    \/ \E e \in Failures : ProviderFails(e)
    \/ ChatReturn

SpecClassifier == InitRelay /\ [][NextClassifier]_vars

\* lines an assistant reply is made of
LinePool ==
    { <<"F", "o", "l", "l", "o", "w", "-", "u", "p", " ", "s", "u", "g", "g", "e", "s", "t", "i", "o", "n", "s", ":">>,
      <<"#", "#", "#", " ", "F", "o", "l", "l", "o", "w", "-", "u", "p", " ", "S", "u", "g", "g", "e", "s", "t", "i", "o", "n", "s">>,
      <<"2", ".", " ", "b">>,
      <<" ", "*", " ", "c", " ">>,
      <<>>,
      <<"#", " ", "h">>,
      <<"x">> }

\* arbitrary lines at the start of a reply
MaxLines == 3

\* list items at the end of a reply
MaxItems == 6

ItemLetters == <<"p", "q", "r", "s", "t", "u", "v", "w", "y", "z">>

Items(n) == [i \in 1..n |-> <<"-", " ", ItemLetters[i]>>]

\* lines.join('\n')
RECURSIVE JoinLines(_)
JoinLines(lines) ==
    IF Len(lines) = 0 THEN <<>>
    ELSE IF Len(lines) = 1 THEN lines[1]
    ELSE lines[1] \o <<LineTerminator>> \o JoinLines(Tail(lines))

Replies ==
    { CharString(JoinLines(l \o Items(n))) :
        l \in SeqsUpTo(LinePool, MaxLines), n \in 0..MaxItems }
    \cup { Undefined, Null, [t |-> "number", k |-> "finite", num |-> 7, den |-> 1] }

\* loadHistory(): a stored conversation that ends with an assistant reply
InitExtractor ==
    /\ RelayIdle
    /\ messages \in { <<[role |-> "user", content |-> CharString(<<"h", "i">>)],
                        [role |-> "assistant", content |-> c]>> : c \in Replies }
    /\ input = <<>>
    /\ loading = FALSE
    /\ error = ""
    /\ abortRef = 0
    /\ requests = <<>>
    /\ view = NotRendered

NextExtractor ==
    \/ Render
    \/ NewChat

SpecExtractor == InitExtractor /\ [][NextExtractor]_vars

Inputs == { <<>>, <<" ">>, <<"h", "i">> }

\* e?.response?.data?.error of a failed call: the relay's error message
FailureMessage == "Unable to reach the AI service"

ReplySamples ==
    { Undefined,
      CharString(<<"o", "k">>),
      CharString(JoinLines(<<<<"F", "o", "l", "l", "o", "w", "-", "u", "p", " ", "s", "u", "g", "g", "e", "s", "t", "i", "o", "n", "s", ":">>, <<"-", " ", "a">>>>)) }

InitClient ==
    /\ RelayIdle
    /\ ClientIdle

NextClient ==
    \/ Render
    \/ \E text \in Inputs : TypeInput(text)
    \/ SendMessage
    \/ StopRequest
    \/ \E r \in 1..Len(requests), c \in ReplySamples : ResponseArrives(r, c)
    \/ \E r \in 1..Len(requests) : RequestFails(r, FailureMessage)
    \/ \E r \in 1..Len(requests) : CancellationHandled(r)
    \/ RegenerateLast
    \/ NewChat
    \/ ClearHistory
    \/ \E k \in 1..MAX_SUGGESTIONS : HandleSuggestionClick(k)

SpecClient == InitClient /\ [][NextClient]_vars

---------------------------------------------------------------------------
(* What the claims speak of, stated apart from the handler's code *)

\* the message list of the request being handled, as the handler reads it
RawMessages == Get(bodyOrEmpty(body), "messages")

\* the entries sanitization looks at: the last MAX_MESSAGES of a list
Window ==
    IF RawMessages.t # "array" THEN <<>>
    ELSE IF Len(RawMessages.items) <= MAX_MESSAGES THEN RawMessages.items
    ELSE SubSeq(RawMessages.items, Len(RawMessages.items) - MAX_MESSAGES + 1,
                Len(RawMessages.items))

\* a text with a character that is not whitespace
NonBlank(text) == \E i \in 1..Len(text) : ~IsWhitespace(text[i].c)

\* an entry that is kept: a record whose content is neither null nor
\* undefined, converts to text, and is not blank
Survives(m) ==
    /\ m.t \in {"object", "array"}
    /\ "content" \in DOMAIN m
    /\ m.content.t \notin {"undefined", "null"}
    /\ ~(m.content.t = "object" /\ "unconvertible" \in DOMAIN m.content)
    /\ NonBlank(String(m.content))

\* the turn a kept entry becomes
Normalized(m) ==
    [role |-> IF "role" \in DOMAIN m /\ m.role \in {Str("user"), Str("assistant"), Str("system")}
              THEN m.role ELSE Str("user"),
     content |-> Text(SliceChars(Trim(String(m.content)), MAX_CHARS))]

\* the non-dropped turns, in their original order
Survivors ==
    LET kept == SelectSeq(Window, Survives)
    IN  [i \in 1..Len(kept) |-> Normalized(kept[i])]

\* an entry of the input that is a turn with role system
IsSystemTurn(m) == m.t = "object" /\ "role" \in DOMAIN m /\ m.role = Str("system")

InputHasSystem ==
    RawMessages.t = "array"
    /\ \E i \in 1..Len(RawMessages.items) : IsSystemTurn(RawMessages.items[i])

ContentLen(turn) == TextLen(turn.content.s)

Composed == payload.messages

\* the handler has composed a payload and handed it to the provider
Sent == pc = "awaiting"

StatusInt(r) == r.status.num \div r.status.den

IsFailureResponse(r) == r # Undefined /\ "error" \in DOMAIN r.body

---------------------------------------------------------------------------
(* C1 *)

\* C1 as stated: the messages sent to the provider are at most 50 turns, none
\* with content longer than 4000 characters.
C1_AtMostFiftyTurnsSent ==
    Sent => /\ Len(Composed) <= MAX_MESSAGES
            /\ \A i \in 1..Len(Composed) : ContentLen(Composed[i]) <= MAX_CHARS

\* C1 as amended: sanitizeMessages returns at most 50 turns, none with content
\* longer than 4000 characters; the messages sent to the provider are that
\* list, preceded by one injected system turn when no kept turn has role
\* system, hence at most 51 turns, and the length limit holds for every turn
\* but the injected one.
C1_SanitizedBoundsAndOneInjected ==
    Sent =>
        LET safe == sanitizeMessages(RawMessages)
        IN  /\ Len(safe) <= MAX_MESSAGES
            /\ \A i \in 1..Len(safe) : ContentLen(safe[i]) <= MAX_CHARS
            /\ \/ Composed = safe
               \/ Len(Composed) = Len(safe) + 1 /\ Tail(Composed) = safe
            /\ Len(Composed) <= MAX_MESSAGES + 1

\* 51 turns are sent, one of them cut to exactly 4000 characters.
C1_Witness ==
    /\ Sent
    /\ Len(Composed) = MAX_MESSAGES + 1
    /\ Len(RawMessages.items) > MAX_MESSAGES
    /\ \E i \in 2..Len(Composed) : ContentLen(Composed[i]) = MAX_CHARS

---------------------------------------------------------------------------
(* C2 *)

\* C2 as stated: an input without a system turn is sent with a system turn
\* first; an input with a system turn is sent as exactly its non-dropped
\* turns, with nothing injected.
C2_InjectedIffInputLacksSystem ==
    Sent => IF InputHasSystem
            THEN Composed = Survivors
            ELSE Composed[1].role = Str("system")

\* C2 as amended: what decides is the kept turns, not the input.  When no
\* kept turn has role system the system turn is injected first and the kept
\* turns follow in order; when a kept turn has role system nothing is
\* injected and the messages are exactly the kept turns in order.
C2_InjectedIffNoKeptSystem ==
    Sent => LET kept == Survivors
            IN  IF \E i \in 1..Len(kept) : kept[i].role = Str("system")
                THEN Composed = kept
                ELSE /\ Composed[1].role = Str("system")
                     /\ Composed[1].content = defaultSystemPrompt(env)
                     /\ Tail(Composed) = kept

\* a kept system turn that is not the first turn, with entries dropped around
\* it: sent as is, nothing injected.
C2_Witness ==
    /\ Sent
    /\ Len(Composed) < Len(RawMessages.items)
    /\ Composed[1].role # Str("system")
    /\ \E i \in 2..Len(Composed) : Composed[i].role = Str("system")

---------------------------------------------------------------------------
(* C3 *)

\* no entry of the request's message list is kept
NothingKept == \A i \in 1..Len(Window) : ~Survives(Window[i])

\* the request was answered with the validation error
Rejected400 == res = ErrorResponse(Num(400, 1), MsgInvalidRequest)

\* C3: a request that reaches validation (the relay has its provider
\* credential) is answered 400 "Invalid request", without a provider call,
\* exactly when no entry is kept; with at least one kept entry it goes to the
\* provider whatever the roles, contents, options and model are.  A relay
\* without the credential validates nothing: it answers every request 500.
C3_RejectedIffNothingKept ==
    pc # "idle" =>
        IF Truthy(env.OPENROUTER_API_KEY)
        THEN /\ Rejected400 <=> NothingKept
             /\ NothingKept <=> (providerCalls = 0)
             /\ ~NothingKept => payload # Undefined
        ELSE /\ res = ErrorResponse(Num(500, 1), MsgNotConfigured)
             /\ providerCalls = 0

\* a list of entries, none kept, is rejected.
C3_Witness ==
    /\ pc = "done"
    /\ Rejected400
    /\ RawMessages.t = "array"
    /\ Len(RawMessages.items) > 1

---------------------------------------------------------------------------
(* C4 *)

HasStatus(err) ==
    /\ err.response # Undefined
    /\ err.response.status.num # 0

UpstreamStatus(err) == err.response.status.num \div err.response.status.den

TimedOut(err) == err.code = Str("ECONNABORTED")

\* the provider's message: the payload's error, else the error's message
ProviderMessage(err) ==
    IF err.response.data # Undefined /\ "error" \in DOMAIN err.response.data
       /\ err.response.data.error # Str("")
    THEN err.response.data.error
    ELSE IF err.message # Undefined THEN err.message
    ELSE Str("Unknown error")

\* the table of the classifier, each row with the rows above it excluded
Table(err) ==
    CASE ~HasStatus(err) /\ TimedOut(err) -> <<504, MsgTimeout>>
      [] ~HasStatus(err) /\ ~TimedOut(err) -> <<502, MsgUnreachable>>
      [] HasStatus(err) /\ UpstreamStatus(err) \in {401, 403} -> <<500, MsgUnauthorized>>
      [] HasStatus(err) /\ UpstreamStatus(err) = 429 -> <<429, MsgRateLimited>>
      [] HasStatus(err) /\ UpstreamStatus(err) \notin {401, 403, 429}
         /\ UpstreamStatus(err) >= 500 -> <<502, MsgProviderIssue>>
      [] HasStatus(err) /\ UpstreamStatus(err) \notin {401, 403, 429}
         /\ UpstreamStatus(err) < 500 ->
            <<UpstreamStatus(err),
              IF ProviderMessage(err).t = "string" THEN ProviderMessage(err)
              ELSE MsgRequestFailed>>

\* C4: every failure is answered with the one pair its row of the table gives.
C4_ClassifierFollowsTable ==
    (pc = "done" /\ caught # Undefined) =>
        /\ IsFailureResponse(res)
        /\ <<StatusInt(res), res.body.error>> = Table(caught)

\* a 404 with a text payload passes through the last row.
C4_Witness ==
    /\ pc = "done"
    /\ caught # Undefined
    /\ HasStatus(caught)
    /\ UpstreamStatus(caught) = 404
    /\ res = ErrorResponse(Num(404, 1), Str("Provider quota exceeded"))

---------------------------------------------------------------------------
(* C5 *)

\* the failure falls in one of the rows above the last
Masked(err) ==
    ~HasStatus(err) \/ UpstreamStatus(err) \in {401, 403, 429} \/ UpstreamStatus(err) >= 500

\* same status, and without a status the same timeout indicator
SameClass(e1, e2) ==
    /\ HasStatus(e1) = HasStatus(e2)
    /\ HasStatus(e1) => UpstreamStatus(e1) = UpstreamStatus(e2)
    /\ ~HasStatus(e1) => TimedOut(e1) = TimedOut(e2)

\* C5: above the last row, the answer to a failure is the answer to every
\* other failure of the same status (or timeout indicator), whatever their
\* payloads, messages and codes are.
C5_MaskedRowsIgnorePayload ==
    (pc = "done" /\ caught # Undefined /\ Masked(caught)) =>
        \A e \in Failures :
            SameClass(caught, e) =>
                res = ErrorResponse(buildClientErrorFromOpenRouter(e).statusCode,
                                    buildClientErrorFromOpenRouter(e).message)

\* a 500 whose payload carries a text is answered without that text.
C5_Witness ==
    /\ pc = "done"
    /\ caught # Undefined
    /\ HasStatus(caught)
    /\ UpstreamStatus(caught) = 500
    /\ caught.response.data = [t |-> "object", error |-> Str("Provider quota exceeded")]
    /\ res.body.error = MsgProviderIssue

---------------------------------------------------------------------------
(* C6 *)

\* C6: every failure response carries a 4xx or 5xx status.
C6_FailureStatusIs4xx5xx ==
    (pc = "done" /\ IsFailureResponse(res)) =>
        (StatusInt(res) >= 400 /\ StatusInt(res) <= 599)

---------------------------------------------------------------------------
(* C7 *)

InUnitInterval(v) ==
    v = Undefined \/ (v.t = "number" /\ v.k = "finite" /\ 0 <= v.num /\ v.num <= v.den)

\* a value that is no number, or NaN
NotANumber(v) == v.t # "number" \/ v.k = "NaN"

\* C7: in every payload temperature and top_p are absent or in [0,1], and
\* max_tokens is absent or an integer in [1,4096]; an option that is no
\* number, or NaN, is absent from the payload.
C7_OptionsInRange ==
    Sent =>
        /\ \A f \in {"temperature", "top_p", "max_tokens"} :
              NotANumber(Get(bodyOrEmpty(body), f)) => payload[f] = Undefined
        /\ InUnitInterval(payload.temperature)
        /\ InUnitInterval(payload.top_p)
        /\ \/ payload.max_tokens = Undefined
           \/ /\ IsInteger(payload.max_tokens)
              /\ 1 <= payload.max_tokens.num \div payload.max_tokens.den
              /\ payload.max_tokens.num \div payload.max_tokens.den <= 4096

---------------------------------------------------------------------------
(* What the claims on the suggestion chips speak of *)

\* the chips of the last render
Chips == view.followUpSuggestions

\* the content the chips of the last render were extracted from
ReplyContent ==
    IF lastAssistantMessage(view.messages) = Null THEN Undefined
    ELSE lastAssistantMessage(view.messages).content

IsUsableText(c) == c.t = "string" /\ Len(c.s) > 0

ReplyLines == IF IsUsableText(ReplyContent) THEN SplitLines(ReplyContent.s) ELSE <<>>

\* the first header line among lines, 0 when there is none
HeaderIndex(lines) ==
    IF \E i \in 1..Len(lines) : isHeaderLine(lines[i])
    THEN CHOOSE i \in 1..Len(lines) :
            isHeaderLine(lines[i]) /\ \A j \in 1..(i - 1) : ~isHeaderLine(lines[j])
    ELSE 0

\* a bullet or numbered line
IsListLine(line) == textOf(TrimChars(line)) # NoMatch

\* the text a list line carries
ItemText(line) == TrimChars(textOf(TrimChars(line)).s)

\* the texts of all list lines after line h, in document order
ItemsAfter(lines, h) ==
    LET after == SelectSeq(SubSeq(lines, h + 1, Len(lines)), IsListLine)
    IN  [i \in 1..Len(after) |-> ItemText(after[i])]

---------------------------------------------------------------------------
(* C8 *)

\* C8: without a header line (or with a content that is empty or no text) no
\* chip is extracted, however many list lines there are; and every chip is
\* the text of a list line that comes after the first header line.
C8_HeaderIsHardGate ==
    view.rendered =>
        LET lines == ReplyLines
            h == HeaderIndex(lines)
            items == ItemsAfter(lines, h)
        IN  /\ h = 0 => Chips = <<>>
            /\ \A k \in 1..Len(Chips) : \E i \in 1..Len(items) : Chips[k] = items[i]

\* a reply with list lines and no header yields no chip.
C8_Witness ==
    /\ view.rendered
    /\ IsUsableText(ReplyContent)
    /\ HeaderIndex(ReplyLines) = 0
    /\ Len(ItemsAfter(ReplyLines, 0)) >= 3
    /\ Chips = <<>>

---------------------------------------------------------------------------
(* C9 *)

\* C9: at most 5 chips, and they are the texts of the first list lines after
\* the header, in document order.
C9_AtMostFiveInOrder ==
    view.rendered =>
        LET lines == ReplyLines
            h == HeaderIndex(lines)
            items == IF h = 0 THEN <<>> ELSE ItemsAfter(lines, h)
        IN  /\ Len(Chips) <= 5
            /\ Len(Chips) <= Len(items)
            /\ Chips = SubSeq(items, 1, Len(Chips))

\* more than five list lines follow the header; five chips are extracted.
C9_Witness ==
    /\ view.rendered
    /\ HeaderIndex(ReplyLines) > 0
    /\ Len(ItemsAfter(ReplyLines, HeaderIndex(ReplyLines))) > 5
    /\ Len(Chips) = 5

---------------------------------------------------------------------------
(* C11 *)

IsBlankLine(line) == TrimChars(line) = <<>>

\* lines without the lines before its first list line
RECURSIVE FromFirstItem(_)
FromFirstItem(lines) ==
    IF lines = <<>> THEN <<>>
    ELSE IF IsListLine(Head(lines)) THEN lines
    ELSE FromFirstItem(Tail(lines))

\* the texts of the list lines at the start of lines, blank lines between
\* them passed over, up to the first line that is neither
RECURSIVE RunOfItems(_)
RunOfItems(lines) ==
    IF lines = <<>> THEN <<>>
    ELSE IF IsListLine(Head(lines)) THEN <<ItemText(Head(lines))>> \o RunOfItems(Tail(lines))
    ELSE IF IsBlankLine(Head(lines)) THEN RunOfItems(Tail(lines))
    ELSE <<>>

\* the first run of list items after line h
FirstRunAfter(lines, h) == RunOfItems(FromFirstItem(SubSeq(lines, h + 1, Len(lines))))

\* C11: the chips are the first run of list items after the header (its first
\* five when it is longer): whatever is not a list line is skipped before
\* the first item, only blank lines are skipped between items, and the first
\* non-blank line that is no list item after an item ends the scan.
C11_FirstRunOfItems ==
    view.rendered =>
        LET lines == ReplyLines
            h == HeaderIndex(lines)
            run == IF h = 0 THEN <<>> ELSE FirstRunAfter(lines, h)
        IN  Chips = SubSeq(run, 1, IF Len(run) < MAX_SUGGESTIONS THEN Len(run)
                                   ELSE MAX_SUGGESTIONS)

\* a line of text after the first item ends the scan: the list lines after it
\* yield no chip.
C11_Witness ==
    /\ view.rendered
    /\ HeaderIndex(ReplyLines) > 0
    /\ Len(Chips) >= 1
    /\ Len(Chips) < MAX_SUGGESTIONS
    /\ Len(Chips) < Len(ItemsAfter(ReplyLines, HeaderIndex(ReplyLines)))

---------------------------------------------------------------------------
(* C12 *)

\* the response the classifier gives for err
Classified(err) ==
    ErrorResponse(buildClientErrorFromOpenRouter(err).statusCode,
                  buildClientErrorFromOpenRouter(err).message)

\* C12: in every step of a request the relay has made at most one provider
\* call for it, and a call is made only on receipt of the request, never
\* after a failure; a request received without the credential is answered 500
\* and one that keeps no turn 400, both with no call; and when the call fails
\* the failure is classified and is the response of that request, whose one
\* call stays the only one.
C12_AtMostOneCallNoRetry ==
    [][ /\ providerCalls' <= 1
        /\ providerCalls' > providerCalls => pc = "idle"
        /\ (pc = "idle" /\ pc' # "idle") =>
              /\ ~Truthy(env.OPENROUTER_API_KEY) =>
                    /\ res' = ErrorResponse(Num(500, 1), MsgNotConfigured)
                    /\ providerCalls' = 0
                    /\ pc' = "done"
              /\ (Truthy(env.OPENROUTER_API_KEY)
                  /\ Len(sanitizeMessages(Get(bodyOrEmpty(body'), "messages"))) = 0) =>
                    /\ res' = ErrorResponse(Num(400, 1), MsgInvalidRequest)
                    /\ providerCalls' = 0
                    /\ pc' = "done"
        /\ (pc = "awaiting" /\ caught' # Undefined) =>
              /\ res' = Classified(caught')
              /\ pc' = "done"
              /\ providerCalls' = 1
              /\ body' = body
      ]_vars

\* a provider failure came back as the response of the request, after one
\* call.
C12_Witness ==
    /\ pc = "done"
    /\ caught # Undefined
    /\ providerCalls = 1
    /\ res = Classified(caught)

---------------------------------------------------------------------------
(* C13 *)

\* what a render of the state s would show for the Regenerate button
RegenerateOffered(msgs, busy) ==
    canRegenerate([messages |-> msgs, loading |-> busy]) /\ lastUserIndex(msgs) # 0

\* C13: when a call fails, the history is left as it is (the user turn
\* appended at submit time stays, no assistant turn is added), the error
\* message is shown, and the render that follows offers Regenerate.
C13_FailureKeepsTurnOffersRegenerate ==
    [][ \A r \in 1..Len(requests) :
          RequestFails(r, FailureMessage) =>
              /\ messages' = messages
              /\ error' = FailureMessage
              /\ RegenerateOffered(messages', loading')
      ]_vars

---------------------------------------------------------------------------
(* C10 *)

\* C10: a call that is pending and not cancelled is the last one made and the
\* one abortRef holds; so there is at most one, and every call made before a
\* new one was cancelled or had settled when the new one started.
C10_OnlyLatestRequestPending ==
    \A r \in 1..Len(requests) :
        requests[r] = "pending" => (r = Len(requests) /\ r = abortRef)

\* a call was made while the one before was pending, which is now cancelled.
C10_Witness ==
    /\ Len(requests) >= 2
    /\ requests[Len(requests) - 1] = "aborted"
    /\ requests[Len(requests)] = "pending"

====
